---- MODULE Spec2Model ----
(***************************************************************************)
(* Stellarium Mount Controller (StellariumMount.ino, Arduino Uno R3).      *)
(* Two stepper axes driven from loop(), commands read by serialEvent().    *)
(* Strings are sequences of one-character strings; int is 16 bits wide.    *)
(***************************************************************************)
EXTENDS Integers, Sequences, FiniteSets, TLC

VARIABLES
    azimuthStep, altitudeStep,          \* current position of each axis
    azimuthTarget, altitudeTarget,      \* commanded position of each axis
    azimuthMoving, altitudeMoving,      \* moving flags
    testAzimuthOnly, testAltitudeOnly, testBothMotors,   \* test-mode flags
    inputString, stringComplete,        \* line buffer and line-ready flag
    currentStep,                        \* static phase index of stepMotor
    azimuthCoils, altitudeCoils,        \* levels last written to each axis' four pins
    wire,                               \* bytes sent by the host, not yet read by serialEvent
    out,                                \* lines printed on Serial during the most recent step
    azHalted, alHalted,                 \* history: STOP dispatched since the axis was last armed
    lastTest,                           \* history: most recently dispatched TEST_* ("BOTH" at startup)
    phasePrev, phaseDir,                \* history: index before / direction of the last stepMotor call
    phasePrev2, phaseDir2,              \* history: the same for the call before that
    phasePins,                          \* history: the pins the last stepMotor call drove
    runStart, runLen                    \* history: current run of same-direction calls (length capped at 8)

vars == << azimuthStep, altitudeStep, azimuthTarget, altitudeTarget,
           azimuthMoving, altitudeMoving,
           testAzimuthOnly, testAltitudeOnly, testBothMotors,
           inputString, stringComplete, currentStep,
           azimuthCoils, altitudeCoils, wire, out,
           azHalted, alHalted, lastTest,
           phasePrev, phaseDir, phasePrev2, phaseDir2, phasePins, runStart, runLen >>

\* history of the phase walk, recorded by the phase-walk specification only
phaseVars == << phasePrev, phaseDir, phasePrev2, phaseDir2, phasePins, runStart, runLen >>

----------------------------------------------------------------------------
(* Program constants *)

STEPS_PER_REVOLUTION == 2048
AZIMUTH_MAX_STEPS == STEPS_PER_REVOLUTION
ALTITUDE_MAX_STEPS == STEPS_PER_REVOLUTION \div 2

stepSequence ==
    << <<1, 0, 0, 0>>,
       <<1, 1, 0, 0>>,
       <<0, 1, 0, 0>>,
       <<0, 1, 1, 0>>,
       <<0, 0, 1, 0>>,
       <<0, 0, 1, 1>>,
       <<0, 0, 0, 1>>,
       <<1, 0, 0, 1>> >>

\* setup() writes LOW to all eight pins
LOW4 == <<0, 0, 0, 0>>

----------------------------------------------------------------------------
(* Integer arithmetic of the ATmega328P build: int is 16 bits wide *)

IntWidth == 65536

\* conversion of a wider value to int
ToInt(v) == ((v + (IntWidth \div 2)) % IntWidth) - (IntWidth \div 2)

\* the C remainder operator: the result takes the sign of the dividend
CRem(a, b) == IF a >= 0 THEN a % b ELSE 0 - ((0 - a) % b)

----------------------------------------------------------------------------
(* Arduino String operations used by processCommand *)

LowerChars == << "a","b","c","d","e","f","g","h","i","j","k","l","m",
                 "n","o","p","q","r","s","t","u","v","w","x","y","z" >>
UpperChars == << "A","B","C","D","E","F","G","H","I","J","K","L","M",
                 "N","O","P","Q","R","S","T","U","V","W","X","Y","Z" >>
DigitChars == << "0","1","2","3","4","5","6","7","8","9" >>

isspace(c) == c \in {" ", "\t", "\n", "\r", "\f"}
isdigit(c) == \E i \in 1..10 : DigitChars[i] = c
DigitVal(c) == (CHOOSE i \in 1..10 : DigitChars[i] = c) - 1

\* toupper() as a table over the lower-case letters
UpperOf ==
    [c \in {LowerChars[i] : i \in 1..26} |->
        UpperChars[CHOOSE i \in 1..26 : LowerChars[i] = c]]

toUpperChar(c) == IF c \in DOMAIN UpperOf THEN UpperOf[c] ELSE c

\* evaluate e once and apply F to its value
Bind(e, F(_)) == CHOOSE r \in {F(x) : x \in {e}} : TRUE

\* String::trim(): begin skips leading whitespace, end skips trailing whitespace
RECURSIVE trimBegin(_, _)
trimBegin(s, i) == IF i <= Len(s) /\ isspace(s[i]) THEN trimBegin(s, i + 1) ELSE i

RECURSIVE trimEnd(_, _, _)
trimEnd(s, begin, j) == IF j >= begin /\ isspace(s[j]) THEN trimEnd(s, begin, j - 1) ELSE j

trim(s) ==
    LET cut(begin) == SubSeq(s, begin, trimEnd(s, begin, Len(s)))
    IN  Bind(trimBegin(s, 1), cut)

\* String::toUpperCase()
toUpperCase(s) ==
    LET up(t) == [i \in 1..Len(t) |-> toUpperChar(t[i])]
    IN  Bind(s, up)

\* String::startsWith(prefix)
startsWith(s, p) == Len(s) >= Len(p) /\ SubSeq(s, 1, Len(p)) = p

\* String::substring(from)
substring(s, from) == SubSeq(s, from + 1, Len(s))

RECURSIVE atolDigits(_, _, _)
atolDigits(s, i, acc) ==
    IF i <= Len(s) /\ isdigit(s[i])
    THEN atolDigits(s, i + 1, acc * 10 + DigitVal(s[i]))
    ELSE acc

\* String::toInt(): atol() of the text: skip whitespace, optional sign,
\* then the leading digits; 0 when there are none.  Returns long (the host
\* inputs explored have at most six digits, which a long holds).
toInt(s) ==
    LET conv(start) ==
            IF start <= Len(s) /\ s[start] = "-" THEN 0 - atolDigits(s, start + 1, 0)
            ELSE IF start <= Len(s) /\ s[start] = "+" THEN atolDigits(s, start + 1, 0)
            ELSE atolDigits(s, start, 0)
    IN  Bind(trimBegin(s, 1), conv)

\* mutant: the upper limit is not applied
constrain_NoUpper(x, lo, hi) == IF x < lo THEN lo ELSE x

\* constrain(x, lo, hi) macro
constrain(x, lo, hi) == IF x < lo THEN lo ELSE IF x > hi THEN hi ELSE x

----------------------------------------------------------------------------
(* Command literals *)

S_AZ        == << "A","Z","," >>
S_AL        == << "A","L","," >>
S_STATUS    == << "S","T","A","T","U","S" >>
S_HOME      == << "H","O","M","E" >>
S_STOP      == << "S","T","O","P" >>
S_HELP      == << "H","E","L","P" >>
S_TEST_AZ   == << "T","E","S","T","_","A","Z" >>
S_TEST_AL   == << "T","E","S","T","_","A","L" >>
S_TEST_BOTH == << "T","E","S","T","_","B","O","T","H" >>
S_TEST_MODE == << "T","E","S","T","_","M","O","D","E" >>

----------------------------------------------------------------------------
(* The controller's variables as one record, threaded through the functions *)

M == [ azimuthStep |-> azimuthStep, altitudeStep |-> altitudeStep,
       azimuthTarget |-> azimuthTarget, altitudeTarget |-> altitudeTarget,
       azimuthMoving |-> azimuthMoving, altitudeMoving |-> altitudeMoving,
       testAzimuthOnly |-> testAzimuthOnly, testAltitudeOnly |-> testAltitudeOnly,
       testBothMotors |-> testBothMotors,
       currentStep |-> currentStep,
       azimuthCoils |-> azimuthCoils, altitudeCoils |-> altitudeCoils,
       out |-> out,
       azHalted |-> azHalted, alHalted |-> alHalted, lastTest |-> lastTest ]

\* Serial.print.. Serial.println: one output line, its fixed text and its variable part
Line(text, arg) == [text |-> text, arg |-> arg]
println(m, text, arg) == [m EXCEPT !.out = Append(@, Line(text, arg))]

T_AZ_MOVING   == "AZIMUTH: Moving to step "
T_AL_MOVING   == "ALTITUDE: Moving to step "
T_STATUS      == "STATUS: "
T_HOME        == "HOME: Moving to home position"
T_STOP        == "STOP: All movement stopped"
T_HELP        == "Available commands:"
T_TEST_AZ     == "TEST_MODE: Azimuth motor only"
T_TEST_AL     == "TEST_MODE: Altitude motor only"
T_TEST_BOTH   == "TEST_MODE: Both motors"
T_TEST_MODE   == "TEST_MODE: "
T_ERROR       == "ERROR: Unknown command '"
T_AZ_REACHED  == "AZIMUTH: Target reached"
T_AL_REACHED  == "ALTITUDE: Target reached"

----------------------------------------------------------------------------
(* Phase sequencer *)

\* mutant: the backward step wraps with 7 instead of 8
nextPhase_WrapSeven(cur, direction) ==
    IF direction > 0 THEN CRem(cur + 1, 8) ELSE CRem(cur - 1 + 7, 8)

\* the index stepMotor moves to
nextPhase(cur, direction) ==
    IF direction > 0 THEN CRem(cur + 1, 8) ELSE CRem(cur - 1 + 8, 8)

stepMotor(m, motorPins, direction) ==
    LET new == nextPhase(m.currentStep, direction)
        pat == stepSequence[new + 1]
    IN  [m EXCEPT !.currentStep = new,
                  !.azimuthCoils = IF motorPins = "azimuthPins" THEN pat ELSE @,
                  !.altitudeCoils = IF motorPins = "altitudePins" THEN pat ELSE @]

----------------------------------------------------------------------------
(* Axis controllers *)

\* mutant: the moving flag is set only when the target differs from the position
moveAzimuthTo_ArmIfAway(m, target) ==
    [m EXCEPT !.azimuthTarget = constrain(target, 0, AZIMUTH_MAX_STEPS),
              !.azimuthMoving = (m.azimuthMoving
                                   \/ m.azimuthStep # constrain(target, 0, AZIMUTH_MAX_STEPS)),
              !.azHalted = FALSE]

moveAzimuthTo(m, target) ==
    [m EXCEPT !.azimuthTarget = constrain(target, 0, AZIMUTH_MAX_STEPS),
              !.azimuthMoving = TRUE,
              !.azHalted = FALSE]

\* mutant: the moving flag is not set
moveAltitudeTo_NoArm(m, target) ==
    [m EXCEPT !.altitudeTarget = constrain(target, 0, ALTITUDE_MAX_STEPS),
              !.alHalted = FALSE]

moveAltitudeTo(m, target) ==
    [m EXCEPT !.altitudeTarget = constrain(target, 0, ALTITUDE_MAX_STEPS),
              !.altitudeMoving = TRUE,
              !.alHalted = FALSE]

\* mutant: the moving flag is not cleared on arrival
moveAzimuthMotor_KeepMoving(m) ==
    IF m.azimuthStep < m.azimuthTarget
    THEN stepMotor([m EXCEPT !.azimuthStep = ToInt(@ + 1)], "azimuthPins", 1)
    ELSE IF m.azimuthStep > m.azimuthTarget
    THEN stepMotor([m EXCEPT !.azimuthStep = ToInt(@ - 1)], "azimuthPins", -1)
    ELSE println(m, T_AZ_REACHED, <<>>)

moveAzimuthMotor(m) ==
    IF m.azimuthStep < m.azimuthTarget
    THEN stepMotor([m EXCEPT !.azimuthStep = ToInt(@ + 1)], "azimuthPins", 1)
    ELSE IF m.azimuthStep > m.azimuthTarget
    THEN stepMotor([m EXCEPT !.azimuthStep = ToInt(@ - 1)], "azimuthPins", -1)
    ELSE println([m EXCEPT !.azimuthMoving = FALSE], T_AZ_REACHED, <<>>)

\* mutant: the altitude motor takes two steps down at a time
moveAltitudeMotor_DoubleStep(m) ==
    IF m.altitudeStep < m.altitudeTarget
    THEN stepMotor([m EXCEPT !.altitudeStep = ToInt(@ + 1)], "altitudePins", 1)
    ELSE IF m.altitudeStep > m.altitudeTarget
    THEN stepMotor([m EXCEPT !.altitudeStep = ToInt(@ - 2)], "altitudePins", -1)
    ELSE println([m EXCEPT !.altitudeMoving = FALSE], T_AL_REACHED, <<>>)

moveAltitudeMotor(m) ==
    IF m.altitudeStep < m.altitudeTarget
    THEN stepMotor([m EXCEPT !.altitudeStep = ToInt(@ + 1)], "altitudePins", 1)
    ELSE IF m.altitudeStep > m.altitudeTarget
    THEN stepMotor([m EXCEPT !.altitudeStep = ToInt(@ - 1)], "altitudePins", -1)
    ELSE println([m EXCEPT !.altitudeMoving = FALSE], T_AL_REACHED, <<>>)

----------------------------------------------------------------------------
(* Command dispatcher *)

\* text printed for the active test mode ("" when no flag is set: nothing printed)
modeText(m, az, al, both) ==
    IF m.testAzimuthOnly THEN az
    ELSE IF m.testAltitudeOnly THEN al
    ELSE IF m.testBothMotors THEN both
    ELSE ""

\* command.trim(); command.toUpperCase();
normalize(line) == toUpperCase(trim(line))

\* int steps = command.substring(3).toInt();
stepsArg(command) == ToInt(toInt(substring(command, 3)))

\* mutant: AZ, without anything after the comma is answered with the error line
azimuthCommand_NeedsArgument(m, command) ==
    LET go(steps) == println(moveAzimuthTo(m, steps), T_AZ_MOVING, steps)
    IN  IF Len(command) = 3
        THEN println(m, T_ERROR, command)
        ELSE Bind(stepsArg(command), go)

azimuthCommand(m, command) ==
    LET go(steps) == println(moveAzimuthTo(m, steps), T_AZ_MOVING, steps)
    IN  Bind(stepsArg(command), go)

altitudeCommand(m, command) ==
    LET go(steps) == println(moveAltitudeTo(m, steps), T_AL_MOVING, steps)
    IN  Bind(stepsArg(command), go)

statusCommand(m) ==
    println(m, T_STATUS,
            [az |-> m.azimuthStep, al |-> m.altitudeStep,
             azMoving |-> IF m.azimuthMoving THEN "1" ELSE "0",
             alMoving |-> IF m.altitudeMoving THEN "1" ELSE "0",
             mode |-> modeText(m, "AZ_ONLY", "AL_ONLY", "BOTH")])

\* mutant: HOME sends only the azimuth axis home
homeCommand_AzimuthOnly(m) == println(moveAzimuthTo(m, 0), T_HOME, <<>>)

homeCommand(m) == println(moveAltitudeTo(moveAzimuthTo(m, 0), 0), T_HOME, <<>>)

\* mutant: STOP forgets the altitude axis
stopCommand_AzimuthOnly(m) ==
    println([m EXCEPT !.azimuthMoving = FALSE,
                      !.azHalted = TRUE, !.alHalted = TRUE],
            T_STOP, <<>>)

stopCommand(m) ==
    println([m EXCEPT !.azimuthMoving = FALSE, !.altitudeMoving = FALSE,
                      !.azHalted = TRUE, !.alHalted = TRUE],
            T_STOP, <<>>)

helpCommand(m) == println(m, T_HELP, <<>>)

testAzCommand(m) ==
    println([m EXCEPT !.testAzimuthOnly = TRUE, !.testAltitudeOnly = FALSE,
                      !.testBothMotors = FALSE, !.lastTest = "AZ"],
            T_TEST_AZ, <<>>)

\* mutant: TEST_AL leaves the azimuth-only flag as it was
testAlCommand_KeepAz(m) ==
    println([m EXCEPT !.testAltitudeOnly = TRUE,
                      !.testBothMotors = FALSE, !.lastTest = "AL"],
            T_TEST_AL, <<>>)

testAlCommand(m) ==
    println([m EXCEPT !.testAzimuthOnly = FALSE, !.testAltitudeOnly = TRUE,
                      !.testBothMotors = FALSE, !.lastTest = "AL"],
            T_TEST_AL, <<>>)

testBothCommand(m) ==
    println([m EXCEPT !.testAzimuthOnly = FALSE, !.testAltitudeOnly = FALSE,
                      !.testBothMotors = TRUE, !.lastTest = "BOTH"],
            T_TEST_BOTH, <<>>)

testModeCommand(m) ==
    println(m, T_TEST_MODE,
            modeText(m, "Azimuth motor only", "Altitude motor only", "Both motors"))

\* mutant: an unknown command also stops the motors
unknownCommand_Stops(m, command) ==
    println([m EXCEPT !.azimuthMoving = FALSE, !.altitudeMoving = FALSE], T_ERROR, command)

unknownCommand(m, command) == println(m, T_ERROR, command)

processCommand(m, line) ==
    LET dispatch(command) ==
            IF startsWith(command, S_AZ) THEN azimuthCommand(m, command)
            ELSE IF startsWith(command, S_AL) THEN altitudeCommand(m, command)
            ELSE IF command = S_STATUS THEN statusCommand(m)
            ELSE IF command = S_HOME THEN homeCommand(m)
            ELSE IF command = S_STOP THEN stopCommand(m)
            ELSE IF command = S_HELP THEN helpCommand(m)
            ELSE IF command = S_TEST_AZ THEN testAzCommand(m)
            ELSE IF command = S_TEST_AL THEN testAlCommand(m)
            ELSE IF command = S_TEST_BOTH THEN testBothCommand(m)
            ELSE IF command = S_TEST_MODE THEN testModeCommand(m)
            ELSE unknownCommand(m, command)
    IN  Bind(normalize(line), dispatch)

----------------------------------------------------------------------------
(* Control loop and byte intake *)

\* loop(): handle a pending line
dispatchPending(m) ==
    IF stringComplete THEN processCommand(m, inputString) ELSE m

\* mutant: the azimuth motor routine runs whether or not the axis is moving
azimuthAxis_IgnoresMoving(m) ==
    IF m.testAzimuthOnly \/ m.testBothMotors
    THEN moveAzimuthMotor(m) ELSE m

\* loop(): move the azimuth motor if needed, respecting the test-mode flags
azimuthAxis(m) ==
    IF m.azimuthMoving /\ (m.testAzimuthOnly \/ m.testBothMotors)
    THEN moveAzimuthMotor(m) ELSE m

\* mutant: the altitude motor moves whatever the test mode
altitudeAxis_NoGate(m) ==
    IF m.altitudeMoving THEN moveAltitudeMotor(m) ELSE m

\* loop(): move the altitude motor if needed, respecting the test-mode flags
altitudeAxis(m) ==
    IF m.altitudeMoving /\ (m.testAltitudeOnly \/ m.testBothMotors)
    THEN moveAltitudeMotor(m) ELSE m

Store(m) ==
    /\ azimuthStep' = m.azimuthStep
    /\ altitudeStep' = m.altitudeStep
    /\ azimuthTarget' = m.azimuthTarget
    /\ altitudeTarget' = m.altitudeTarget
    /\ azimuthMoving' = m.azimuthMoving
    /\ altitudeMoving' = m.altitudeMoving
    /\ testAzimuthOnly' = m.testAzimuthOnly
    /\ testAltitudeOnly' = m.testAltitudeOnly
    /\ testBothMotors' = m.testBothMotors
    /\ currentStep' = m.currentStep
    /\ azimuthCoils' = m.azimuthCoils
    /\ altitudeCoils' = m.altitudeCoils
    /\ out' = m.out
    /\ azHalted' = m.azHalted
    /\ alHalted' = m.alHalted
    /\ lastTest' = m.lastTest

\* history of one stepMotor call that started at index before
H == [ prev |-> phasePrev, dir |-> phaseDir, prev2 |-> phasePrev2, dir2 |-> phaseDir2,
       pins |-> phasePins, runStart |-> runStart, runLen |-> runLen ]

noteCall(h, before, direction, pins) ==
    LET continues == h.dir = direction /\ h.runLen < 8
    IN  [ prev |-> before, dir |-> direction, prev2 |-> h.prev, dir2 |-> h.dir,
          pins |-> pins,
          runStart |-> IF continues THEN h.runStart ELSE before,
          runLen |-> IF continues THEN h.runLen + 1 ELSE 1 ]

\* the stepMotor calls of one iteration: a call is made exactly when a position changes
RecordPhase(d, a, b) ==
    LET h1 == IF a.azimuthStep # d.azimuthStep
              THEN noteCall(H, d.currentStep, a.azimuthStep - d.azimuthStep, "azimuthPins")
              ELSE H
        h2 == IF b.altitudeStep # a.altitudeStep
              THEN noteCall(h1, a.currentStep, b.altitudeStep - a.altitudeStep, "altitudePins")
              ELSE h1
    IN  /\ phasePrev' = h2.prev /\ phaseDir' = h2.dir
        /\ phasePrev2' = h2.prev2 /\ phaseDir2' = h2.dir2
        /\ phasePins' = h2.pins
        /\ runStart' = h2.runStart /\ runLen' = h2.runLen

\* one iteration of loop(); track says whether the phase history is recorded
loop(track) ==
    /\ \E d \in { dispatchPending([M EXCEPT !.out = <<>>]) } :
         \E a \in { azimuthAxis(d) } :
           \E b \in { altitudeAxis(a) } :
              /\ Store(b)
              /\ IF track THEN RecordPhase(d, a, b) ELSE UNCHANGED phaseVars
    /\ inputString' = IF stringComplete THEN <<>> ELSE inputString
    /\ stringComplete' = FALSE
    /\ UNCHANGED wire

\* serialEvent() finding avail bytes in the receive buffer
\* mutant: receiving bytes also clears the azimuth moving flag
serialEvent_StopsAzimuth(avail) ==
    LET chunk == SubSeq(wire, 1, avail)
    IN  /\ inputString' = inputString \o chunk
        /\ stringComplete' = (stringComplete \/ \E i \in 1..avail : chunk[i] = "\n")
        /\ wire' = SubSeq(wire, avail + 1, Len(wire))
        /\ Store([M EXCEPT !.out = <<>>, !.azimuthMoving = FALSE])
        /\ UNCHANGED phaseVars

serialEvent(avail) ==
    LET chunk == SubSeq(wire, 1, avail)
    IN  /\ inputString' = inputString \o chunk
        /\ stringComplete' = (stringComplete \/ \E i \in 1..avail : chunk[i] = "\n")
        /\ wire' = SubSeq(wire, avail + 1, Len(wire))
        /\ Store([M EXCEPT !.out = <<>>])
        /\ UNCHANGED phaseVars

\* the host writes one line to the serial port
hostSend(line) ==
    /\ wire = <<>>
    /\ wire' = line
    /\ Store([M EXCEPT !.out = <<>>])
    /\ UNCHANGED <<inputString, stringComplete, phaseVars>>

\* a host that waits for the reply to its previous line before it writes the next
hostSendAfterReply(line) ==
    /\ inputString = <<>>
    /\ ~stringComplete
    /\ hostSend(line)

\* the state setup() leaves
Boot ==
    /\ azimuthStep = 0 /\ altitudeStep = 0
    /\ azimuthTarget = 0 /\ altitudeTarget = 0
    /\ azimuthMoving = FALSE /\ altitudeMoving = FALSE
    /\ testAzimuthOnly = FALSE /\ testAltitudeOnly = FALSE /\ testBothMotors = TRUE
    /\ inputString = <<>> /\ stringComplete = FALSE
    /\ currentStep = 0
    /\ azimuthCoils = LOW4 /\ altitudeCoils = LOW4
    /\ wire = <<>> /\ out = <<>>
    /\ azHalted = FALSE /\ alHalted = FALSE /\ lastTest = "BOTH"
    /\ phasePrev = 0 /\ phaseDir = 0 /\ phasePrev2 = 0 /\ phaseDir2 = 0
    /\ phasePins = "none" /\ runStart = 0 /\ runLen = 0

----------------------------------------------------------------------------
(* Bounds and host inputs *)

\* longest line buffer explored
MaxInput == 10

NL == << "\n" >>

\* serialEvent() runs between iterations of loop() when bytes are available
SerialEvent ==
    \E avail \in 1..Len(wire) :
        /\ Len(inputString) + avail <= MaxInput
        /\ serialEvent(avail)

Loop == loop(FALSE)

----------------------------------------------------------------------------
(* Moves, HOME and STOP on both axes *)

Lines ==
    { S_AZ \o <<"2">> \o NL,
      S_AL \o <<"1">> \o NL,
      S_HOME \o NL,
      S_STOP \o NL }

HostSend == \E line \in Lines : hostSend(line)

Init == Boot

Next == HostSend \/ SerialEvent \/ Loop

Spec == Init /\ [][Next]_vars

----------------------------------------------------------------------------
(* Moves and HOME, with loop() running forever: an iteration that has       *)
(* something to do is eventually run                                        *)

LinesLive ==
    { S_AZ \o <<"2">> \o NL,
      S_AL \o <<"1">> \o NL,
      S_HOME \o NL }

HostSendLive == \E line \in LinesLive : hostSend(line)

NextLive == HostSendLive \/ SerialEvent \/ Loop

SpecLive == Init /\ [][NextLive]_vars /\ WF_vars(Loop)

----------------------------------------------------------------------------
(* Test modes, with an altitude move and STOP *)

LinesGate ==
    { S_AL \o <<"1">> \o NL,
      S_STOP \o NL,
      S_TEST_AZ \o NL,
      S_TEST_AL \o NL,
      S_TEST_BOTH \o NL }

HostSendGate == \E line \in LinesGate : hostSend(line)

NextGate == HostSendGate \/ SerialEvent \/ Loop

SpecGate == Init /\ [][NextGate]_vars

SpecGateLive == Init /\ [][NextGate]_vars /\ WF_vars(Loop)

----------------------------------------------------------------------------
(* Lines that exercise the parser: a number too wide for int, a negative    *)
(* number, an unknown word, lower case with surrounding whitespace.  The    *)
(* host waits for each reply.                                               *)

LinesParse ==
    { S_AZ \o <<"4","0","0","0","0">> \o NL,
      S_AL \o <<"-","5">> \o NL,
      << "G","A","R","B","A","G","E" >> \o NL,
      << " ","a","l",",","1","\r" >> \o NL }

HostSendParse == \E line \in LinesParse : hostSendAfterReply(line)

NextParse == HostSendParse \/ SerialEvent \/ Loop

SpecParse == Init /\ [][NextParse]_vars

----------------------------------------------------------------------------
(* Both ends of the range.  The controller starts either from setup() or    *)
(* from the state it is in after AZ,2047 and then AL,1023 have run to       *)
(* completion; the host asks for targets at the end the mount is near and   *)
(* waits for each reply.                                                    *)

NearTop ==
    /\ azimuthStep = 2047 /\ altitudeStep = 1023
    /\ azimuthTarget = 2047 /\ altitudeTarget = 1023
    /\ azimuthMoving = FALSE /\ altitudeMoving = FALSE
    /\ testAzimuthOnly = FALSE /\ testAltitudeOnly = FALSE /\ testBothMotors = TRUE
    /\ inputString = <<>> /\ stringComplete = FALSE
    /\ currentStep = 6
    /\ azimuthCoils = stepSequence[8] /\ altitudeCoils = stepSequence[7]
    /\ wire = <<>> /\ out = <<>>
    /\ azHalted = FALSE /\ alHalted = FALSE /\ lastTest = "BOTH"
    /\ phasePrev = 0 /\ phaseDir = 0 /\ phasePrev2 = 0 /\ phaseDir2 = 0
    /\ phasePins = "none" /\ runStart = 0 /\ runLen = 0

LinesBottom ==
    { S_AZ \o <<"1">> \o NL,
      S_AZ \o <<"-","5">> \o NL,
      S_AL \o <<"1">> \o NL,
      S_AL \o <<"-","5">> \o NL }

LinesTop ==
    { S_AZ \o <<"9","9","9","9">> \o NL,
      S_AZ \o <<"2","0","4","7">> \o NL,
      S_AL \o <<"9","9","9","9">> \o NL,
      S_AL \o <<"1","0","2","3">> \o NL }

HostSendRange ==
    \E line \in (IF azimuthStep > AZIMUTH_MAX_STEPS \div 2 THEN LinesTop ELSE LinesBottom) :
        hostSendAfterReply(line)

InitRange == Boot \/ NearTop

NextRange == HostSendRange \/ SerialEvent \/ Loop

SpecRange == InitRange /\ [][NextRange]_vars

----------------------------------------------------------------------------
(* A long azimuth walk out and back, with an altitude step in between; the  *)
(* history of the stepMotor calls is recorded; the host waits for replies   *)

LinesWalk ==
    { S_AZ \o <<"9">> \o NL,
      S_AL \o <<"1">> \o NL,
      S_HOME \o NL }

HostSendWalk == \E line \in LinesWalk : hostSendAfterReply(line)

LoopWalk == loop(TRUE)

NextWalk == HostSendWalk \/ SerialEvent \/ LoopWalk

SpecWalk == Init /\ [][NextWalk]_vars

----------------------------------------------------------------------------
(* Target commands without a number: nothing after the comma, or a letter;  *)
(* the host waits for replies                                               *)

LinesMalformed ==
    { S_AZ \o <<"2">> \o NL,
      S_AZ \o NL,
      S_AL \o <<"1">> \o NL,
      << "a","l",",","x" >> \o NL }

HostSendMalformed == \E line \in LinesMalformed : hostSendAfterReply(line)

NextMalformed == HostSendMalformed \/ SerialEvent \/ Loop

SpecMalformed == Init /\ [][NextMalformed]_vars

----------------------------------------------------------------------------
(* Single ticks: moves in both directions on both axes, targets equal to    *)
(* the position, STOP and the test modes; the host waits for replies        *)

LinesTick ==
    { S_AZ \o <<"2">> \o NL,
      S_AL \o <<"1">> \o NL,
      S_AL \o <<"0">> \o NL,
      S_HOME \o NL,
      S_STOP \o NL,
      S_TEST_AZ \o NL,
      S_TEST_BOTH \o NL }

HostSendTick == \E line \in LinesTick : hostSendAfterReply(line)

NextTick == HostSendTick \/ SerialEvent \/ Loop

SpecTick == Init /\ [][NextTick]_vars

----------------------------------------------------------------------------
(* Shorthands used by the properties *)

AzGate == testAzimuthOnly \/ testBothMotors
AlGate == testAltitudeOnly \/ testBothMotors

\* the most recent step printed a line with this text
Printed(text) == \E i \in 1..Len(out) : out[i].text = text

\* the most recent step dispatched a command that sets the axis' target
AzArmed == Printed(T_AZ_MOVING) \/ Printed(T_HOME)
AlArmed == Printed(T_AL_MOVING) \/ Printed(T_HOME)

----------------------------------------------------------------------------
(* C1: once an axis is armed with its gate active, it comes to rest on its  *)
(* target (position = target, moving false) unless a later command          *)
(* retargets it, stops it or closes its gate; and an axis at rest on its    *)
(* target stays there until a command arms it again.                        *)

C1_AzRest == azimuthStep = azimuthTarget /\ ~azimuthMoving
C1_AlRest == altitudeStep = altitudeTarget /\ ~altitudeMoving

C1_MoveCompletes ==
    /\ (azimuthMoving /\ AzGate) ~> (C1_AzRest \/ AzArmed \/ azHalted \/ ~AzGate)
    /\ (altitudeMoving /\ AlGate) ~> (C1_AlRest \/ AlArmed \/ alHalted \/ ~AlGate)
    /\ [][ (C1_AzRest /\ ~AzArmed')
              => (azimuthStep' = azimuthStep /\ azimuthTarget' = azimuthTarget
                  /\ ~azimuthMoving') ]_vars
    /\ [][ (C1_AlRest /\ ~AlArmed')
              => (altitudeStep' = altitudeStep /\ altitudeTarget' = altitudeTarget
                  /\ ~altitudeMoving') ]_vars

C1_Witness ==
    /\ azimuthStep = 2 /\ azimuthTarget = 2 /\ ~azimuthMoving
    /\ altitudeStep = 1 /\ altitudeTarget = 1 /\ ~altitudeMoving

----------------------------------------------------------------------------
(* C2: for every integer N carried by a dispatched AZ,<N> or AL,<N>, the    *)
(* target stored for that axis is N clamped to [0, axisMax].                *)

\* the iteration of loop() that dispatches the pending line
Dispatches == stringComplete /\ ~stringComplete'

\* the integer written after the comma of the pending command
CarriedInt == toInt(substring(normalize(inputString), 3))

Clamped(n, max) == IF n < 0 THEN 0 ELSE IF n > max THEN max ELSE n

C2_TargetClamped ==
    [][ Dispatches =>
          /\ startsWith(normalize(inputString), S_AZ)
                => azimuthTarget' = Clamped(CarriedInt, AZIMUTH_MAX_STEPS)
          /\ startsWith(normalize(inputString), S_AL)
                => altitudeTarget' = Clamped(CarriedInt, ALTITUDE_MAX_STEPS) ]_vars

----------------------------------------------------------------------------
(* C3: in every reachable state both axes have 0 <= position <= axisMax and *)
(* 0 <= target <= axisMax.                                                  *)

C3_RangeInvariant ==
    /\ azimuthStep \in 0..AZIMUTH_MAX_STEPS
    /\ azimuthTarget \in 0..AZIMUTH_MAX_STEPS
    /\ altitudeStep \in 0..ALTITUDE_MAX_STEPS
    /\ altitudeTarget \in 0..ALTITUDE_MAX_STEPS

\* both axes have walked to the top of their range and rest there
C3_Witness ==
    /\ azimuthStep = AZIMUTH_MAX_STEPS /\ altitudeStep = ALTITUDE_MAX_STEPS
    /\ ~azimuthMoving /\ ~altitudeMoving

----------------------------------------------------------------------------
(* C4 as stated: for each axis, moving is true if and only if position is   *)
(* not the target and the axis' gate is active.                             *)

C4_MovingIff ==
    /\ azimuthMoving <=> (azimuthStep # azimuthTarget /\ AzGate)
    /\ altitudeMoving <=> (altitudeStep # altitudeTarget /\ AlGate)

(* C4 as amended: for each axis, if position is not the target then moving  *)
(* is true unless STOP was dispatched since the axis was last armed, and    *)
(* moving is never true after such a STOP.                                  *)

C4_OffTargetMeansMovingOrStopped ==
    /\ azimuthStep # azimuthTarget => (azimuthMoving \/ azHalted)
    /\ altitudeStep # altitudeTarget => (altitudeMoving \/ alHalted)
    /\ azimuthMoving => ~azHalted
    /\ altitudeMoving => ~alHalted

\* altitude armed and off its target while its gate is closed
C4_Witness == altitudeStep # altitudeTarget /\ altitudeMoving /\ ~AlGate

----------------------------------------------------------------------------
(* C5: every terminator-delimited line is dispatched as its own command:    *)
(* whenever a line is ready for dispatch, the buffer holds exactly that one *)
(* line, ending with its terminator.                                        *)

Terminators(s) == {i \in 1..Len(s) : s[i] = "\n"}

C5_EachLineItsOwnCommand ==
    stringComplete => Terminators(inputString) = {Len(inputString)}

----------------------------------------------------------------------------
(* C6: after STOP both axes have moving false; until the axis is armed      *)
(* again (AZ / AL / HOME) moving stays false and the position does not      *)
(* change, whatever loop iterations and TEST_* commands follow; the         *)
(* iteration that dispatches STOP changes neither position nor target.      *)

C6_StopFreezes ==
    /\ [](azHalted => ~azimuthMoving)
    /\ [](alHalted => ~altitudeMoving)
    /\ [][ (azHalted /\ azHalted') => azimuthStep' = azimuthStep ]_vars
    /\ [][ (alHalted /\ alHalted') => altitudeStep' = altitudeStep ]_vars
    /\ [][ Printed(T_STOP)' =>
             /\ azHalted' /\ alHalted'
             /\ azimuthStep' = azimuthStep /\ altitudeStep' = altitudeStep
             /\ azimuthTarget' = azimuthTarget /\ altitudeTarget' = altitudeTarget ]_vars

\* altitude stopped short of its target, and the gate opened again afterwards
C6_Witness ==
    /\ alHalted /\ altitudeStep # altitudeTarget
    /\ AlGate /\ Printed(T_TEST_BOTH)

----------------------------------------------------------------------------
(* C7: exactly one of the three test-mode flags is set, and it is the one   *)
(* named by the most recently dispatched TEST_* command (BOTH at startup).  *)

C7_ExactlyOneMode ==
    /\ Cardinality({f \in {"AZ", "AL", "BOTH"} :
                      \/ f = "AZ" /\ testAzimuthOnly
                      \/ f = "AL" /\ testAltitudeOnly
                      \/ f = "BOTH" /\ testBothMotors}) = 1
    /\ testAzimuthOnly <=> lastTest = "AZ"
    /\ testAltitudeOnly <=> lastTest = "AL"
    /\ testBothMotors <=> lastTest = "BOTH"

\* TEST_AL was the command dispatched last: altitude-only is selected
C7_Witness == Printed(T_TEST_AL) /\ testAltitudeOnly /\ lastTest = "AL"

----------------------------------------------------------------------------
(* C8: while an axis' gate is closed its position never changes, a target   *)
(* set for it is recorded and stays armed; once the gate is open the        *)
(* pending move runs to the recorded target (unless re-armed, stopped or    *)
(* gated off again).                                                        *)

C8_GateHoldsThenResumes ==
    /\ [][ ~AzGate' => azimuthStep' = azimuthStep ]_vars
    /\ [][ ~AlGate' => altitudeStep' = altitudeStep ]_vars
    /\ [][ (Printed(T_AL_MOVING)' /\ ~AlGate')
              => (altitudeMoving' /\ altitudeTarget' = Clamped(out'[1].arg, ALTITUDE_MAX_STEPS)) ]_vars
    /\ [][ (altitudeMoving /\ ~AlGate' /\ ~Printed(T_STOP)') => altitudeMoving' ]_vars
    /\ (altitudeMoving /\ AlGate)
          ~> ((altitudeStep = altitudeTarget /\ ~altitudeMoving)
              \/ AlArmed \/ alHalted \/ ~AlGate)

\* AL,1 recorded while only azimuth is selected: armed, target 1, still at 0
C8_Witness ==
    /\ testAzimuthOnly /\ altitudeMoving
    /\ altitudeTarget = 1 /\ altitudeStep = 0

----------------------------------------------------------------------------
(* C9: dispatching a line that matches none of the recognized forms prints  *)
(* the error line naming the normalized text and changes nothing else: the  *)
(* targets and the test mode keep their values, and positions, moving flags *)
(* and further output are those of an iteration with no line pending.       *)

Recognized(command) ==
    \/ startsWith(command, S_AZ)
    \/ startsWith(command, S_AL)
    \/ command \in {S_STATUS, S_HOME, S_STOP, S_HELP,
                    S_TEST_AZ, S_TEST_AL, S_TEST_BOTH, S_TEST_MODE}

\* the iteration of loop() without the pending line
TicksOnly == altitudeAxis(azimuthAxis([M EXCEPT !.out = <<>>]))

C9_UnknownHarmless ==
    [][ (Dispatches /\ ~Recognized(normalize(inputString))) =>
          /\ Len(out') >= 1
          /\ out'[1].text = T_ERROR
          /\ out'[1].arg = normalize(inputString)
          /\ Tail(out') = TicksOnly.out
          /\ azimuthTarget' = azimuthTarget /\ altitudeTarget' = altitudeTarget
          /\ testAzimuthOnly' = testAzimuthOnly
          /\ testAltitudeOnly' = testAltitudeOnly
          /\ testBothMotors' = testBothMotors
          /\ azimuthStep' = TicksOnly.azimuthStep
          /\ altitudeStep' = TicksOnly.altitudeStep
          /\ azimuthMoving' = TicksOnly.azimuthMoving
          /\ altitudeMoving' = TicksOnly.altitudeMoving ]_vars

\* GARBAGE answered with the error line while altitude is still armed
C9_Witness ==
    /\ Len(out) >= 1 /\ out[1].text = T_ERROR
    /\ out[1].arg = << "G","A","R","B","A","G","E" >>
    /\ altitudeStep = 1

----------------------------------------------------------------------------
(* C10: the phase index stays in 0..7; every stepMotor call moves it by     *)
(* direction modulo 8 (from 0 a backward step gives 7) and writes the table *)
(* pattern of the new index; eight consecutive calls in one direction       *)
(* return to the index the run started from, and a call in the opposite     *)
(* direction right after a call returns to the index held before that call. *)

NonNegMod8(i) == CHOOSE r \in 0..7 : \E k \in -2..2 : i = 8 * k + r

C10_PhaseWalk ==
    /\ currentStep \in 0..7
    /\ phaseDir # 0 =>
          /\ currentStep = NonNegMod8(phasePrev + phaseDir)
          /\ phasePins = "azimuthPins" => azimuthCoils = stepSequence[currentStep + 1]
          /\ phasePins = "altitudePins" => altitudeCoils = stepSequence[currentStep + 1]
    /\ runLen = 8 => currentStep = runStart
    /\ (phaseDir # 0 /\ phaseDir2 = 0 - phaseDir) => currentStep = phasePrev2

\* a run of eight forward calls that wrapped from 7 to 0
C10_Witness == runLen = 8 /\ phaseDir = 1 /\ phasePrev = 7 /\ currentStep = 0

\* a backward call from index 0
C10_WitnessBack == phaseDir = -1 /\ phasePrev = 0 /\ currentStep = 7

----------------------------------------------------------------------------
(* C11 as stated: every tick that changes an axis' position drives that     *)
(* axis' four coil outputs to the table pattern one after (forward step) or *)
(* one before (backward step), modulo 8, the pattern last driven on that    *)
(* same axis' outputs.                                                      *)

IsPattern(coils) == \E i \in 0..7 : stepSequence[i + 1] = coils

PatternIndex(coils) == CHOOSE i \in 0..7 : stepSequence[i + 1] = coils

C11_PerMotorSequence ==
    [][ /\ (azimuthStep' # azimuthStep /\ IsPattern(azimuthCoils))
            => azimuthCoils' = stepSequence[NonNegMod8(PatternIndex(azimuthCoils)
                                              + (azimuthStep' - azimuthStep)) + 1]
        /\ (altitudeStep' # altitudeStep /\ IsPattern(altitudeCoils))
            => altitudeCoils' = stepSequence[NonNegMod8(PatternIndex(altitudeCoils)
                                              + (altitudeStep' - altitudeStep)) + 1] ]_vars

----------------------------------------------------------------------------
(* C12: AZ,<s> / AL,<s> whose <s> is empty or does not start with a number  *)
(* is not rejected: the iteration that dispatches it ends in exactly the    *)
(* state, with exactly the output, that dispatching AZ,0 / AL,0 gives: the  *)
(* target is 0, the axis is armed, the acknowledgement names step 0 and no  *)
(* error line is printed.                                                   *)

\* atol() finds a number: optional white space, optional sign, then a digit
StartsWithNumber(s) ==
    LET i == trimBegin(s, 1)
        j == IF i <= Len(s) /\ s[i] \in {"-", "+"} THEN i + 1 ELSE i
    IN  j <= Len(s) /\ isdigit(s[j])

\* the iteration of loop() with this line pending instead
IterationWith(line) ==
    altitudeAxis(azimuthAxis(processCommand([M EXCEPT !.out = <<>>], line)))

SameOutcomeAs(line) ==
    LET r == IterationWith(line)
    IN  /\ out' = r.out
        /\ azimuthStep' = r.azimuthStep /\ altitudeStep' = r.altitudeStep
        /\ azimuthTarget' = r.azimuthTarget /\ altitudeTarget' = r.altitudeTarget
        /\ azimuthMoving' = r.azimuthMoving /\ altitudeMoving' = r.altitudeMoving
        /\ testAzimuthOnly' = r.testAzimuthOnly
        /\ testAltitudeOnly' = r.testAltitudeOnly
        /\ testBothMotors' = r.testBothMotors
        /\ currentStep' = r.currentStep
        /\ azimuthCoils' = r.azimuthCoils /\ altitudeCoils' = r.altitudeCoils

C12_MalformedIsZero ==
    [][ (Dispatches /\ ~StartsWithNumber(substring(normalize(inputString), 3))) =>
          /\ startsWith(normalize(inputString), S_AZ) =>
                /\ SameOutcomeAs(S_AZ \o <<"0">>)
                /\ out'[1] = Line(T_AZ_MOVING, 0)
                /\ ~Printed(T_ERROR)'
                /\ azimuthTarget' = 0
                /\ azimuthMoving' \/ (azimuthStep' = 0 /\ Printed(T_AZ_REACHED)')
          /\ startsWith(normalize(inputString), S_AL) =>
                /\ SameOutcomeAs(S_AL \o <<"0">>)
                /\ out'[1] = Line(T_AL_MOVING, 0)
                /\ ~Printed(T_ERROR)'
                /\ altitudeTarget' = 0
                /\ altitudeMoving' \/ (altitudeStep' = 0 /\ Printed(T_AL_REACHED)') ]_vars

\* "AZ," dispatched with azimuth at step 2: acknowledged with step 0, on its way back
C12_Witness ==
    /\ Len(out) >= 1 /\ out[1] = Line(T_AZ_MOVING, 0)
    /\ azimuthStep = 1 /\ azimuthTarget = 0 /\ azimuthMoving

----------------------------------------------------------------------------
(* C13: the iteration that dispatches HOME sets both targets to 0 and arms  *)
(* both axes, wherever they are; afterwards an axis with target 0 only ever *)
(* steps downwards, and (gate active, loop() fair, no further target        *)
(* command or STOP) it comes to rest at position 0 with moving false.       *)

C13_HomeRetargets ==
    /\ [][ Printed(T_HOME)' =>
             /\ azimuthTarget' = 0 /\ altitudeTarget' = 0
             /\ ~azHalted' /\ ~alHalted'
             /\ IF AzGate'
                THEN \/ azimuthMoving' /\ azimuthStep' = azimuthStep - 1
                     \/ ~azimuthMoving' /\ azimuthStep = 0 /\ azimuthStep' = 0
                ELSE azimuthMoving' /\ azimuthStep' = azimuthStep
             /\ IF AlGate'
                THEN \/ altitudeMoving' /\ altitudeStep' = altitudeStep - 1
                     \/ ~altitudeMoving' /\ altitudeStep = 0 /\ altitudeStep' = 0
                ELSE altitudeMoving' /\ altitudeStep' = altitudeStep ]_vars
    /\ [][ (azimuthTarget' = 0 /\ azimuthStep' # azimuthStep)
              => azimuthStep' = azimuthStep - 1 ]_vars
    /\ [][ (altitudeTarget' = 0 /\ altitudeStep' # altitudeStep)
              => altitudeStep' = altitudeStep - 1 ]_vars
    /\ (Printed(T_HOME) /\ azimuthMoving /\ AzGate)
          ~> ((azimuthStep = 0 /\ ~azimuthMoving)
              \/ Printed(T_AZ_MOVING) \/ azHalted \/ ~AzGate)
    /\ (Printed(T_HOME) /\ altitudeMoving /\ AlGate)
          ~> ((altitudeStep = 0 /\ ~altitudeMoving)
              \/ Printed(T_AL_MOVING) \/ alHalted \/ ~AlGate)

\* HOME dispatched with azimuth on its way between 0 and 2: armed towards 0
C13_Witness ==
    /\ Printed(T_HOME) /\ azimuthTarget = 0
    /\ azimuthStep = 1 /\ azimuthMoving /\ altitudeMoving

----------------------------------------------------------------------------
(* C14 as stated: once the terminator has been received and the line-ready  *)
(* flag is set, no byte is appended to the line buffer until the dispatcher *)
(* has consumed and cleared it.                                             *)

C14_NoAppendWhileReady ==
    [][ (stringComplete /\ stringComplete') => inputString' = inputString ]_vars

----------------------------------------------------------------------------
(* C15: in one iteration of loop() each position changes by at most 1; an   *)
(* axis that is armed with its gate active and is not at its target moves   *)
(* exactly one step towards the target, never past it; an axis whose moving *)
(* flag is false or whose gate is inactive at its tick does not move.       *)

Abs(x) == IF x < 0 THEN 0 - x ELSE x

\* the step is an iteration of loop(): the serial line is not touched
LoopStep == wire' = wire

\* the moving flag as the axis' tick of this iteration found it
AzMovingAtTick == azimuthMoving' \/ Printed(T_AZ_REACHED)'
AlMovingAtTick == altitudeMoving' \/ Printed(T_AL_REACHED)'

C15_OneStepPerTick ==
    /\ [][ /\ Abs(azimuthStep' - azimuthStep) <= 1
           /\ Abs(altitudeStep' - altitudeStep) <= 1 ]_vars
    /\ [][ (LoopStep /\ AzMovingAtTick /\ AzGate' /\ azimuthStep # azimuthTarget')
              => /\ Abs(azimuthStep' - azimuthTarget') = Abs(azimuthStep - azimuthTarget') - 1
                 /\ Abs(azimuthStep' - azimuthStep) = 1 ]_vars
    /\ [][ (LoopStep /\ AlMovingAtTick /\ AlGate' /\ altitudeStep # altitudeTarget')
              => /\ Abs(altitudeStep' - altitudeTarget') = Abs(altitudeStep - altitudeTarget') - 1
                 /\ Abs(altitudeStep' - altitudeStep) = 1 ]_vars
    /\ [][ (~AzMovingAtTick \/ ~AzGate') => azimuthStep' = azimuthStep ]_vars
    /\ [][ (~AlMovingAtTick \/ ~AlGate') => altitudeStep' = altitudeStep ]_vars

\* azimuth stepping back from 2 towards 0 while altitude is armed but gated off
C15_Witness ==
    /\ azimuthStep = 1 /\ azimuthTarget = 0 /\ azimuthMoving
    /\ altitudeMoving /\ altitudeStep = 1 /\ altitudeTarget = 0 /\ ~AlGate

----------------------------------------------------------------------------
(* C16: a target command whose clamped value equals the axis' position      *)
(* still sets moving (seen while the gate is inactive: the flag stays set   *)
(* and nothing else happens); the axis' next tick with its gate active      *)
(* clears moving, leaves the position, the coil outputs and (when the other *)
(* motor does not step) the phase index unchanged, and prints exactly one   *)
(* target-reached line.                                                     *)

Count(text, lines) == Cardinality({i \in 1..Len(lines) : lines[i].text = text})

C16_ArmThenSettle ==
    /\ [][ (AzArmed' /\ azimuthTarget' = azimuthStep /\ ~AzGate')
              => (azimuthMoving' /\ azimuthStep' = azimuthStep
                  /\ azimuthCoils' = azimuthCoils /\ Count(T_AZ_REACHED, out') = 0) ]_vars
    /\ [][ (AlArmed' /\ altitudeTarget' = altitudeStep /\ ~AlGate')
              => (altitudeMoving' /\ altitudeStep' = altitudeStep
                  /\ altitudeCoils' = altitudeCoils /\ Count(T_AL_REACHED, out') = 0) ]_vars
    /\ [][ (/\ LoopStep /\ AzGate' /\ azimuthTarget' = azimuthStep
            /\ AzArmed' \/ (azimuthMoving /\ ~Printed(T_STOP)'))
              => /\ ~azimuthMoving' /\ azimuthStep' = azimuthStep
                 /\ azimuthCoils' = azimuthCoils
                 /\ Count(T_AZ_REACHED, out') = 1
                 /\ altitudeStep' = altitudeStep => currentStep' = currentStep ]_vars
    /\ [][ (/\ LoopStep /\ AlGate' /\ altitudeTarget' = altitudeStep
            /\ AlArmed' \/ (altitudeMoving /\ ~Printed(T_STOP)'))
              => /\ ~altitudeMoving' /\ altitudeStep' = altitudeStep
                 /\ altitudeCoils' = altitudeCoils
                 /\ Count(T_AL_REACHED, out') = 1
                 /\ azimuthStep' = azimuthStep => currentStep' = currentStep ]_vars

\* AL,0 dispatched at position 0 with the gate active: acknowledged, then settled
\* by the tick of the same iteration
C16_Witness ==
    /\ Len(out) = 2 /\ out[1] = Line(T_AL_MOVING, 0) /\ out[2].text = T_AL_REACHED
    /\ ~altitudeMoving /\ altitudeStep = 0 /\ altitudeTarget = 0

\* AL,0 dispatched at position 0 while only azimuth is selected: armed, not settled
C16_WitnessGated ==
    /\ Len(out) = 1 /\ out[1] = Line(T_AL_MOVING, 0)
    /\ altitudeMoving /\ altitudeStep = 0 /\ altitudeTarget = 0 /\ ~AlGate

----------------------------------------------------------------------------
(* C17 as stated: the step number echoed in the "Moving to step N"          *)
(* acknowledgement of a dispatched AZ,<N> / AL,<N> equals the target that   *)
(* command stored for the axis.                                             *)

C17_AckNamesTarget ==
    [][ /\ \A i \in 1..Len(out') :
              out'[i].text = T_AZ_MOVING => out'[i].arg = azimuthTarget'
        /\ \A i \in 1..Len(out') :
              out'[i].text = T_AL_MOVING => out'[i].arg = altitudeTarget' ]_vars

----------------------------------------------------------------------------
(* C18: a byte-arrival event appends the bytes it reads to the line buffer  *)
(* and sets the line-ready flag when one of them is the terminator (never   *)
(* clearing it); positions, targets, moving flags, the phase index, the     *)
(* coil outputs and the test-mode flags keep their values, and nothing is   *)
(* printed.                                                                 *)

\* the step is a serialEvent: bytes leave the serial line
SerialStep == Len(wire') < Len(wire)

BytesRead == SubSeq(wire, 1, Len(wire) - Len(wire'))

C18_IntakeTouchesOnlyBuffer ==
    [][ SerialStep =>
          /\ inputString' = inputString \o BytesRead
          /\ stringComplete' = (stringComplete \/ \E i \in 1..Len(BytesRead) : BytesRead[i] = "\n")
          /\ azimuthStep' = azimuthStep /\ altitudeStep' = altitudeStep
          /\ azimuthTarget' = azimuthTarget /\ altitudeTarget' = altitudeTarget
          /\ azimuthMoving' = azimuthMoving /\ altitudeMoving' = altitudeMoving
          /\ currentStep' = currentStep
          /\ azimuthCoils' = azimuthCoils /\ altitudeCoils' = altitudeCoils
          /\ testAzimuthOnly' = testAzimuthOnly
          /\ testAltitudeOnly' = testAltitudeOnly
          /\ testBothMotors' = testBothMotors
          /\ out' = <<>> ]_vars

\* part of a line has been received while azimuth is between two steps
C18_Witness ==
    /\ inputString # <<>> /\ ~stringComplete /\ wire # <<>>
    /\ azimuthMoving /\ azimuthStep = 1 /\ azimuthTarget = 2

----------------------------------------------------------------------------
(* C19: an axis prints "Target reached" only in a tick (gate active) that   *)
(* finds its position equal to its target with moving set, and that tick    *)
(* clears moving; an axis whose moving flag is clear and that the iteration *)
(* does not arm prints none, so there is at most one notification between   *)
(* two arming commands; and none is printed after STOP until the axis is    *)
(* armed again.                                                             *)

C19_ReachedSoundOnce ==
    /\ [][ Printed(T_AZ_REACHED)' =>
             /\ LoopStep /\ Count(T_AZ_REACHED, out') = 1
             /\ AzGate' /\ (azimuthMoving \/ AzArmed')
             /\ azimuthStep = azimuthTarget' /\ azimuthStep' = azimuthStep
             /\ ~azimuthMoving' ]_vars
    /\ [][ Printed(T_AL_REACHED)' =>
             /\ LoopStep /\ Count(T_AL_REACHED, out') = 1
             /\ AlGate' /\ (altitudeMoving \/ AlArmed')
             /\ altitudeStep = altitudeTarget' /\ altitudeStep' = altitudeStep
             /\ ~altitudeMoving' ]_vars
    /\ [][ (~azimuthMoving /\ ~AzArmed') => ~Printed(T_AZ_REACHED)' ]_vars
    /\ [][ (~altitudeMoving /\ ~AlArmed') => ~Printed(T_AL_REACHED)' ]_vars
    /\ [][ azHalted' => ~Printed(T_AZ_REACHED)' ]_vars
    /\ [][ alHalted' => ~Printed(T_AL_REACHED)' ]_vars

\* azimuth has arrived at step 2 and said so, in an iteration without a command
C19_Witness ==
    /\ out = << Line(T_AZ_REACHED, <<>>) >>
    /\ azimuthStep = 2 /\ azimuthTarget = 2 /\ ~azimuthMoving

====
